---- MODULE Spec2Model ----
(***************************************************************************)
(* A model of mcplates.APWPath (src/mcplates/apw_path.py): the kinematic   *)
(* function built by generate_pole_position_fn, and the life cycle of an   *)
(* APWPath object (create_model, sample_mcmc, load_mcmc, the trace queries *)
(* and the two reconstruction operations).                                 *)
(*                                                                         *)
(* Ages and rates are integers (Myr, degrees/Myr).  A direction is a pair  *)
(* <<longitude, latitude>>.  The spherical rotation itself lives in the    *)
(* poles module; here a pole is the list of rotations applied to it.       *)
(***************************************************************************)
EXTENDS Integers, Sequences, FiniteSets, TLC

\* ------------------------------------------------------------------ bounds
MaxEuler == 3
MaxAge == 3
MaxPoles == 2
MaxSample == 4

Ages == (0 - 1)..MaxAge
Rates == {1, 2}
Latitudes == {0, 90}

VARIABLES
    n_euler_poles,   \* self._n_euler_poles, the closure parameter n_euler_poles
    start_age,       \* self._start_age, the closure parameter start_age
    frame,           \* the activation of pole_position being executed
    poles,           \* self._poles
    model_vars,      \* self.model_vars
    model_args,      \* the list args that create_model's Lambda nodes close over
    mcmc,            \* self.mcmc and its db
    disk,            \* the pickle store named self.dbname
    last             \* what the last operation on the object did

vars == <<n_euler_poles, start_age, frame, poles, model_vars, model_args,
          mcmc, disk, last>>

\* ------------------------------------------------------------ list helpers
Range(s) == {s[k] : k \in DOMAIN s}

RECURSIVE Insert(_, _)
\* x put before the first element of the ascending list s that exceeds it
Insert(x, s) ==
    IF s = <<>> THEN <<x>>
    ELSE IF x <= Head(s) THEN <<x>> \o s
    ELSE <<Head(s)>> \o Insert(x, Tail(s))

RECURSIVE Sort(_)
\* np.sort: ascending
Sort(s) == IF s = <<>> THEN <<>> ELSE Insert(Head(s), Sort(Tail(s)))

\* s[::-1]
Reverse(s) == [k \in 1..Len(s) |-> s[Len(s) + 1 - k]]

\* present day not appended: one boundary too few
SortedChangepoints_NoPresentDay(cps) == Reverse(Sort(cps))

\* the reversal forgotten: ascending order
SortedChangepoints_Ascending(cps) == Sort(Append(cps, 0))

\* np.sort(changepoints)[::-1], after changepoints.append(0.0)
SortedChangepoints(cps) == Reverse(Sort(Append(cps, 0)))

Min(a, b) == IF a <= b THEN a ELSE b
Max(a, b) == IF a >= b THEN a ELSE b

\* --------------------------------------------------- the kinematic function
\* poles.EulerPole(ll[0], ll[1], r)
EulerPole(ll, r) == [longitude |-> ll[1], latitude |-> ll[2], rate |-> r]

\* poles.PaleomagneticPole(start[0], start[1], age=age), not yet rotated
PaleomagneticPole(start, age) ==
    [longitude |-> start[1], latitude |-> start[2], age |-> age, rotated |-> <<>>]

\* pole.rotate(e, angle): the rotation is recorded, in order
rotate(pole, e, angle) ==
    [pole EXCEPT !.rotated = Append(@, [about |-> e, angle |-> angle])]

ExpectedArgs(n) == n * 3 - 1

\* only too few arguments are refused
ArityMismatch_TooFewOnly(n, args) == Len(args) < ExpectedArgs(n)

\* len(args) != (n_euler_poles * 3 - 1)
ArityMismatch(n, args) == Len(args) # ExpectedArgs(n)

IdleFrame ==
    [pc |-> "idle", age |-> 0, args |-> <<>>, changepoints |-> <<>>,
     euler_poles |-> <<>>, pole |-> PaleomagneticPole(<<0, 0>>, 0),
     time |-> 0, i |-> 0, spans |-> <<>>, broke |-> FALSE]

\* pole_position up to the head of the for loop: the arity check, the parse
\* of *args, the sort of the changepoints, the starting pole
EnterPolePosition(n, s_age, start, age, args) ==
    IF ArityMismatch(n, args)
    THEN [IdleFrame EXCEPT !.pc = "raised", !.age = age, !.args = args]
    ELSE LET lon_lats == SubSeq(args, 1, n)
             rates == SubSeq(args, n + 1, 2 * n)
             changepoints == SortedChangepoints(SubSeq(args, 2 * n + 1, Len(args)))
         IN  [pc |-> "loop", age |-> age, args |-> args,
              changepoints |-> changepoints,
              euler_poles |-> [k \in 1..n |-> EulerPole(lon_lats[k], rates[k])],
              pole |-> PaleomagneticPole(start, age),
              time |-> s_age, i |-> 0, spans |-> <<>>, broke |-> FALSE]

\* zip(euler_poles, changepoints) has this many items
ZipLen(f) == Min(Len(f.euler_poles), Len(f.changepoints))

\* the boundary age itself walks past
WalksPast_Inclusive(age, c) == age <= c

\* the test that keeps the walk going past the interval ending at c
WalksPast(age, c) == age < c

\* the break forgotten: the walk goes on after the rotation to the target age
WalkStep_NoBreak(f) ==
    LET e == f.euler_poles[f.i + 1]
        c == f.changepoints[f.i + 1]
    IN  IF WalksPast(f.age, c)
        THEN [f EXCEPT !.pole = rotate(f.pole, e, e.rate * (f.time - c)),
                       !.spans = Append(@, f.time - c),
                       !.time = c,
                       !.i = @ + 1]
        ELSE [f EXCEPT !.pole = rotate(f.pole, e, e.rate * (f.time - f.age)),
                       !.spans = Append(@, f.time - f.age),
                       !.i = @ + 1]

\* one iteration of the for loop, on item f.i (counted from 0)
WalkStep(f) ==
    LET e == f.euler_poles[f.i + 1]
        c == f.changepoints[f.i + 1]
    IN  IF WalksPast(f.age, c)
        THEN [f EXCEPT !.pole = rotate(f.pole, e, e.rate * (f.time - c)),
                       !.spans = Append(@, f.time - c),
                       !.time = c,
                       !.i = @ + 1]
        ELSE [f EXCEPT !.pole = rotate(f.pole, e, e.rate * (f.time - f.age)),
                       !.spans = Append(@, f.time - f.age),
                       !.i = @ + 1,
                       !.broke = TRUE,
                       !.pc = "returned"]

\* the for loop ends because zip is exhausted
WalkExhausted(f) == [f EXCEPT !.pc = "returned"]

RECURSIVE RunWalk(_)
RunWalk(f) ==
    IF f.pc # "loop" THEN f
    ELSE IF f.i < ZipLen(f) THEN RunWalk(WalkStep(f))
    ELSE WalkExhausted(f)

\* a whole call of pole_position(start, age, *args)
PolePosition(n, s_age, start, age, args) ==
    RunWalk(EnterPolePosition(n, s_age, start, age, args))

\* ----------------------------------------------- calls of the kinematic fn
EulerDirections(n) ==
    {[k \in 1..n |-> <<(45 * k) % 360, lat>>] : lat \in Latitudes}

EulerRates(n) == {[k \in 1..n |-> r + (k - 1)] : r \in Rates}

StartDirections == {<<0, 0>>}

\* pole_position(start, age, *args) is called
Call ==
    /\ frame.pc = "idle"
    /\ \E lon_lats \in EulerDirections(n_euler_poles),
          rates \in EulerRates(n_euler_poles),
          k \in 0..n_euler_poles,
          start \in StartDirections,
          age \in Ages :
          \E cps \in [1..k -> Ages] :
             frame' = EnterPolePosition(n_euler_poles, start_age, start, age,
                                        lon_lats \o rates \o cps)
    /\ UNCHANGED <<n_euler_poles, start_age, poles, model_vars, model_args,
                   mcmc, disk, last>>

\* one iteration of the walk
Step ==
    /\ frame.pc = "loop"
    /\ frame.i < ZipLen(frame)
    /\ frame' = WalkStep(frame)
    /\ UNCHANGED <<n_euler_poles, start_age, poles, model_vars, model_args,
                   mcmc, disk, last>>

\* the walk runs out of intervals
Exhaust ==
    /\ frame.pc = "loop"
    /\ frame.i >= ZipLen(frame)
    /\ frame' = WalkExhausted(frame)
    /\ UNCHANGED <<n_euler_poles, start_age, poles, model_vars, model_args,
                   mcmc, disk, last>>

\* the caller takes the result (or the exception) and the activation is gone
Leave ==
    /\ frame.pc \in {"returned", "raised"}
    /\ frame' = IdleFrame
    /\ UNCHANGED <<n_euler_poles, start_age, poles, model_vars, model_args,
                   mcmc, disk, last>>

InitKin ==
    /\ n_euler_poles \in 1..MaxEuler
    /\ start_age \in {MaxAge - 1, MaxAge}
    /\ frame = IdleFrame
    /\ poles = <<>>
    /\ model_vars = [is_none |-> TRUE, nodes |-> <<>>]
    /\ model_args = <<>>
    /\ mcmc = [is_none |-> TRUE, db |-> [is_none |-> FALSE, cells |-> <<>>]]
    /\ disk = [exists |-> FALSE, cells |-> <<>>]
    /\ last = [op |-> "init", input |-> <<>>, outcome |-> "ok",
               reads |-> <<>>, rows |-> <<>>, result |-> <<>>]

NextKin == Call \/ Step \/ Exhaust \/ Leave

SpecKin == InitKin /\ [][NextKin]_vars

\* ------------------------------------------------------- the APWPath object
\* 'euler_' + str(i) and the like: a prefix and an index
Name(prefix, i) == <<prefix, i>>

StartName == <<"start", 0>>

AgeTypes == {"gaussian", "uniform", "other"}

\* the observation lists an APWPath is constructed with: one pole or
\* MaxPoles of them; the poles before the last are alternately gaussian and
\* uniform, the last is of any age type
PoleLists ==
    UNION {{[k \in 1..m |->
                [age |-> IF oldest_first THEN MaxAge - (k - 1) ELSE MaxAge - (m - k),
                 age_type |-> IF k = m THEN last_type
                              ELSE IF k % 2 = 1 THEN "gaussian" ELSE "uniform"]] :
              last_type \in AgeTypes, oldest_first \in BOOLEAN} :
           m \in {1, MaxPoles}}

\* [p.age for p in self._poles]
AgeList(ps) == [k \in 1..Len(ps) |-> ps[k].age]

MaxOf(s) == CHOOSE x \in Range(s) : \A y \in Range(s) : y <= x
MinOf(s) == CHOOSE x \in Range(s) : \A y \in Range(s) : x <= y

\* a node of the probabilistic graph; age_var is the age variable a Lambda
\* node closes over
Node(name, kind) == [name |-> name, kind |-> kind, age_var |-> <<>>]

Unbound == Node(<<"unbound", 0>>, "unbound")

\* the age variable of observation i (counted from 0), given the value
\* pole_age held before this iteration
PoleAge(p, i, pole_age) ==
    IF p.age_type = "gaussian" THEN Node(Name("a", i), "Normal")
    ELSE IF p.age_type = "uniform" THEN Node(Name("a", i), "Uniform")
    ELSE pole_age

RECURSIVE ObservedNodes(_, _, _, _)
\* the loop "for i, p in enumerate(self._poles)" from observation i on
ObservedNodes(ps, i, pole_age, acc) ==
    IF i >= Len(ps) THEN [outcome |-> "ok", nodes |-> acc]
    ELSE LET age_node == PoleAge(ps[i + 1], i, pole_age)
         IN  IF age_node = Unbound
             THEN [outcome |-> "UnboundLocalError", nodes |-> acc]
             ELSE ObservedNodes(ps, i + 1, age_node,
                     acc \o <<age_node,
                              [Node(Name("ll", i), "Lambda") EXCEPT !.age_var = age_node.name],
                              Node(Name("p", i), "VonMisesFisherObserved")>>)

EulerNodes(n) == [k \in 1..n |-> Node(Name("euler", k - 1), "WatsonGirdle")]
RateNodes(n) == [k \in 1..n |-> Node(Name("rate", k - 1), "Exponential")]
ChangepointNodes(n) == [k \in 1..(n - 1) |-> Node(Name("changepoint", k - 1), "Uniform")]

NamesOf(nodes) == [k \in 1..Len(nodes) |-> nodes[k].name]

\* the list args of create_model: directions, then rates, then changepoints
ModelArgs(n) == NamesOf(EulerNodes(n) \o RateNodes(n) \o ChangepointNodes(n))

NoModel == [is_none |-> TRUE, nodes |-> <<>>]

\* create_model(site_lon_lat, watson_concentration, rate_scale)
create_model(ps, n, watson_concentration, rate_scale, old_vars, old_args) ==
    IF ~(rate_scale > 0) \/ ~(watson_concentration <= 0)
    THEN [outcome |-> "AssertionError", model_vars |-> old_vars, args |-> old_args]
    ELSE LET priors == <<Node(StartName, "VonMisesFisher")>>
                         \o EulerNodes(n) \o RateNodes(n) \o ChangepointNodes(n)
             obs == ObservedNodes(ps, 0, Unbound, <<>>)
         IN  IF obs.outcome # "ok"
             THEN [outcome |-> obs.outcome, model_vars |-> old_vars, args |-> old_args]
             ELSE [outcome |-> "ok",
                   model_vars |-> [is_none |-> FALSE, nodes |-> priors \o obs.nodes],
                   args |-> ModelArgs(n)]

\* ------------------------------------------------------------ the sampler
\* a pickle database: its traces by name, each a list of draws
EmptyDb == [is_none |-> FALSE, cells |-> <<>>]
NoFile == [exists |-> FALSE, cells |-> <<>>]
NoMcmc == [is_none |-> TRUE, db |-> EmptyDb]

\* pymc.MCMC(model_vars, db='pickle', dbname=self.dbname): a sampler with a
\* new, empty database.  With model_vars None pymc collects the nodes of
\* __main__ instead and the constructor still returns.
NewMcmc == [is_none |-> FALSE, db |-> EmptyDb]

\* the variables the sampler keeps a trace of: the unobserved stochastics
Traced(nodes) ==
    {nodes[k].name : k \in {j \in DOMAIN nodes :
        nodes[j].kind \notin {"Lambda", "VonMisesFisherObserved"}}}

\* the value the sampler draws for a variable at draw k (counted from 0)
SampleValue(ps, name, k) ==
    LET lo == MinOf(AgeList(ps))
        hi == MaxOf(AgeList(ps))
    IN  CASE name[1] = "start" -> <<(10 * k) % 360, 0>>
          [] name[1] = "euler" -> <<(45 * (name[2] + 1) + k) % 360, 0>>
          [] name[1] = "rate" -> 1 + ((k + name[2]) % 2)
          [] name[1] = "changepoint" -> lo + ((k + name[2]) % (hi - lo + 1))
          [] OTHER -> ps[name[2] + 1].age - ((k + name[2]) % 2)

\* self.mcmc.sample(iter, burn, thin): iter - burn draws are kept when thin = 1
SampleLength(iter, burn, thin) == (iter - burn) \div thin

Sampled(ps, nodes, iter, burn, thin) ==
    [name \in Traced(nodes) |->
        [k \in 1..SampleLength(iter, burn, thin) |-> SampleValue(ps, name, k - 1)]]

\* the warm-up of sample_mcmc: int(nsample / 5)
BurnIn(nsample) == nsample \div 5

MapOutcomes == {"converged", "not_converged", "raised"}

\* sample_mcmc(nsample); map is what MAP.fit() does
sample_mcmc(ps, mvars, old_mcmc, old_disk, nsample, map) ==
    IF mvars.is_none
    THEN [outcome |-> "NoModelCreated", mcmc |-> old_mcmc, disk |-> old_disk,
          steps |-> <<>>]
    ELSE IF map = "raised"
    THEN [outcome |-> "MAPError", mcmc |-> NewMcmc, disk |-> old_disk,
          steps |-> <<"MCMC", "find_MAP">>]
    ELSE LET cells == Sampled(ps, mvars.nodes, nsample, BurnIn(nsample), 1)
         IN  [outcome |-> "ok",
              mcmc |-> [is_none |-> FALSE, db |-> [is_none |-> FALSE, cells |-> cells]],
              disk |-> [exists |-> TRUE, cells |-> cells],
              steps |-> <<"MCMC", "find_MAP", "sample", "close", "load_mcmc">>]

\* load_mcmc()
load_mcmc(old_disk) ==
    IF ~old_disk.exists
    THEN [outcome |-> "IOError", mcmc |-> NewMcmc]
    ELSE [outcome |-> "ok",
          mcmc |-> [is_none |-> FALSE, db |-> [is_none |-> FALSE, cells |-> old_disk.cells]]]

\* what every operation reports
Report(op, input, outcome) ==
    [op |-> op, input |-> input, outcome |-> outcome,
     reads |-> <<>>, rows |-> <<>>, result |-> <<>>]

\* ------------------------------------------------- operations on the object
CreateModel ==
    /\ frame.pc = "idle"
    /\ \E watson_concentration \in {0 - 1, 1}, rate_scale \in {0, 3} :
          LET r == create_model(poles, n_euler_poles, watson_concentration,
                                rate_scale, model_vars, model_args)
          IN  /\ model_vars' = r.model_vars
              /\ model_args' = r.args
              /\ last' = Report("create_model", <<watson_concentration, rate_scale>>,
                                r.outcome)
    /\ UNCHANGED <<n_euler_poles, start_age, frame, poles, mcmc, disk>>

SampleMcmc ==
    /\ frame.pc = "idle"
    /\ \E nsample \in {1, MaxSample}, map \in MapOutcomes :
          LET r == sample_mcmc(poles, model_vars, mcmc, disk, nsample, map)
          IN  /\ mcmc' = r.mcmc
              /\ disk' = r.disk
              /\ last' = [Report("sample_mcmc", <<nsample, map>>, r.outcome)
                            EXCEPT !.result = r.steps]
    /\ UNCHANGED <<n_euler_poles, start_age, frame, poles, model_vars, model_args>>

LoadMcmc ==
    /\ frame.pc = "idle"
    /\ LET r == load_mcmc(disk)
       IN  /\ mcmc' = r.mcmc
           /\ last' = Report("load_mcmc", <<>>, r.outcome)
    /\ UNCHANGED <<n_euler_poles, start_age, frame, poles, model_vars, model_args,
                   disk>>

\* ----------------------------------------------------- the trace queries
Queries == {"euler_directions", "euler_rates", "changepoints", "ages"}

\* the traces a query asks the database for, in order
QueryNames(op, n, ps) ==
    CASE op = "euler_directions" -> [k \in 1..n |-> Name("euler", k - 1)]
      [] op = "euler_rates" -> [k \in 1..n |-> Name("rate", k - 1)]
      [] op = "changepoints" -> [k \in 1..(n - 1) |-> Name("changepoint", k - 1)]
      [] OTHER -> [k \in 1..Len(ps) |-> Name("a", k - 1)]

\* a read of draw index of the trace name; index -1 is the whole trace, [:]
ReadOf(name, index) == [name |-> name, index |-> index]

ReadFails(cells, r) ==
    \/ r.name \notin DOMAIN cells
    \/ r.index >= Len(cells[r.name])

\* the position of the first read of the plan that raises, 0 if none does
FirstFail(cells, plan) ==
    IF \E k \in DOMAIN plan : ReadFails(cells, plan[k])
    THEN CHOOSE k \in DOMAIN plan :
            /\ ReadFails(cells, plan[k])
            /\ \A j \in 1..(k - 1) : ~ReadFails(cells, plan[j])
    ELSE 0

ReadError(cells, r) == IF r.name \notin DOMAIN cells THEN "KeyError" ELSE "IndexError"

\* what self.mcmc.db evaluates to when self.mcmc is None
NoneHasNoDb == "AttributeError"

\* euler_directions, euler_rates, changepoints, ages
query(op, m, n, ps) ==
    IF m.is_none THEN Report(op, <<>>, NoneHasNoDb)
    ELSE IF m.db.is_none THEN Report(op, <<>>, "NoDatabaseLoaded")
    ELSE LET names == QueryNames(op, n, ps)
             plan == [k \in 1..Len(names) |-> ReadOf(names[k], 0 - 1)]
             bad == FirstFail(m.db.cells, plan)
         IN  IF op = "euler_directions" /\ Len(names) >= 1 /\ bad # 1
             \* rotations has no clamp_longitude: the first iteration raises
             THEN [Report(op, <<>>, "AttributeError") EXCEPT !.reads = <<plan[1]>>]
             ELSE IF bad # 0
             THEN [Report(op, <<>>, "KeyError") EXCEPT !.reads = SubSeq(plan, 1, bad - 1)]
             ELSE [Report(op, <<>>, "ok") EXCEPT
                      !.reads = plan,
                      !.result = [k \in 1..Len(names) |-> m.db.cells[names[k]]]]

\* the longitudes of euler_0 written back through the slice of the trace
mcmc_after_query_WritesThrough(op, m) ==
    IF op = "euler_directions" /\ ~m.is_none /\ Name("euler", 0) \in DOMAIN m.db.cells
    THEN [m EXCEPT !.db.cells[Name("euler", 0)] =
             [k \in DOMAIN @ |-> <<(@[k][1] + 180) % 360, @[k][2]>>]]
    ELSE m

\* self.mcmc once the query has ended: the queries only read the traces; the
\* one assignment into a slice of a trace, samples[:,0] = ... in
\* euler_directions, is not reached because the call on its right raises
mcmc_after_query(op, m) == m

\* ------------------------------------------------------- reconstruction
\* the number of ages a synthetic path is evaluated at
n_segments == 100

AgePlaceholder == <<"age", 0>>

\* the switchpoint arguments left out
SynthArgNames_NoChangepoints(n) ==
    [k \in 1..n |-> Name("euler", k - 1)] \o [k \in 1..n |-> Name("rate", k - 1)]

\* the arguments compute_synthetic_* appends after start and the age
SynthArgNames(n) ==
    [k \in 1..n |-> Name("euler", k - 1)]
    \o [k \in 1..n |-> Name("rate", k - 1)]
    \o [k \in 1..(n - 1) |-> Name("changepoint", k - 1)]

\* the traces read for one selected draw, in order
RowNames(op, n, ps) ==
    <<StartName>> \o SynthArgNames(n)
    \o (IF op = "compute_synthetic_poles"
        THEN [k \in 1..Len(ps) |-> Name("a", k - 1)] ELSE <<>>)

\* the stride rounded up instead of down
Interval_RoundedUp(T, n) == Max(1, (T + n - 1) \div n)

\* max(1, int(len(trace) / n))
Interval(T, n) == Max(1, T \div n)

\* the index advanced before the draw is read
DrawIndex_AdvancedFirst(i, interval) == (i + 1) * interval

\* the draw index of row i: index starts at 0 and grows by interval
DrawIndex(i, interval) == i * interval

\* every read of the operation, in program order
ReadPlan(op, n_e, ps, n, interval) ==
    LET names == RowNames(op, n_e, ps)
        L == Len(names)
    IN  [k \in 1..(n * L) |->
            ReadOf(names[((k - 1) % L) + 1], DrawIndex((k - 1) \div L, interval))]

Value(cells, name, index) == cells[name][index + 1]

\* np.linspace(max(age_list), min(age_list), n_segments), in units of
\* 1/(n_segments - 1) Myr
PathAges(ps) ==
    LET hi == MaxOf(AgeList(ps))
        lo == MinOf(AgeList(ps))
    IN  [j \in 1..n_segments |-> hi * (n_segments - 1) + (j - 1) * (lo - hi)]

\* one row of compute_synthetic_poles: the argument list of draw index and a
\* call of the kinematic function per observation
PolesRow(cells, n_e, s_age, ps, index) ==
    LET names == SynthArgNames(n_e)
        start == Value(cells, StartName, index)
        args == [k \in 1..Len(names) |-> Value(cells, names[k], index)]
        ages == [j \in 1..Len(ps) |-> Value(cells, Name("a", j - 1), index)]
        out == [j \in 1..Len(ps) |-> PolePosition(n_e, s_age, start, ages[j], args)]
    IN  [index |-> index,
         sources |-> <<StartName, AgePlaceholder>> \o names,
         args |-> args,
         unit |-> 1,
         ages |-> ages,
         out |-> [j \in 1..Len(ps) |-> [pc |-> out[j].pc, lon_lat |-> out[j].pole.rotated]]]

\* one row of compute_synthetic_paths: the same argument list and a call per
\* path age; times are in units of 1/(n_segments - 1) Myr
PathsRow(cells, n_e, s_age, ps, index) ==
    LET names == SynthArgNames(n_e)
        unit == n_segments - 1
        start == Value(cells, StartName, index)
        args == [k \in 1..Len(names) |-> Value(cells, names[k], index)]
        scaled == [k \in 1..Len(names) |->
                      IF k > 2 * n_e THEN unit * args[k] ELSE args[k]]
        ages == PathAges(ps)
    IN  [index |-> index,
         sources |-> <<StartName, AgePlaceholder>> \o names,
         args |-> args,
         unit |-> unit,
         ages |-> ages,
         out |-> [j \in 1..n_segments |->
                    LET f == PolePosition(n_e, s_age * unit, start, ages[j], scaled)
                    IN  [pc |-> f.pc, lon_lat |-> f.pole.rotated]]]

Row(op, cells, n_e, s_age, ps, index) ==
    IF op = "compute_synthetic_poles"
    THEN PolesRow(cells, n_e, s_age, ps, index)
    ELSE PathsRow(cells, n_e, s_age, ps, index)

\* the upper limit off by one
InAllowableRange_OneMore(n, T) == n <= T + 1 /\ n >= 1

\* n <= len(trace('rate_0')[:]) and n >= 1
InAllowableRange(n, T) == n <= T /\ n >= 1

Reconstructions == {"compute_synthetic_poles", "compute_synthetic_paths"}

\* len(self.mcmc.db.trace('rate_0')[:]): the whole trace of rate_0 is read
\* for its length, once in the range assertion and once for the interval
LengthRead == ReadOf(Name("rate", 0), 0 - 1)

\* compute_synthetic_poles(n), compute_synthetic_paths(n); there is no test of
\* self.mcmc.db here, so a sampler without a database fails on None.trace
reconstruct(op, m, n_e, s_age, ps, n) ==
    IF m.is_none THEN Report(op, n, NoneHasNoDb)
    ELSE IF m.db.is_none THEN Report(op, n, "AttributeError")
    ELSE IF Name("rate", 0) \notin DOMAIN m.db.cells THEN Report(op, n, "KeyError")
    ELSE LET cells == m.db.cells
             T == Len(cells[Name("rate", 0)])
             interval == Interval(T, n)
             plan == ReadPlan(op, n_e, ps, n, interval)
             bad == FirstFail(cells, plan)
             \* the reads made before the first call of the kinematic function
             first_call == 1 + Len(SynthArgNames(n_e))
                             + (IF op = "compute_synthetic_poles" THEN 1 ELSE 0)
             sized == <<LengthRead, LengthRead>>
         IN  IF ~InAllowableRange(n, T)
             THEN [Report(op, n, "AssertionError") EXCEPT !.reads = <<LengthRead>>]
             ELSE IF ~(interval > 0)
             THEN [Report(op, n, "AssertionError") EXCEPT !.reads = sized]
             ELSE IF bad # 0 /\ bad <= first_call
             THEN [Report(op, n, ReadError(cells, plan[bad])) EXCEPT
                      !.reads = sized \o SubSeq(plan, 1, bad - 1)]
             ELSE IF ArityMismatch(n_e, SynthArgNames(n_e))
             THEN [Report(op, n, "Exception") EXCEPT
                      !.reads = sized \o SubSeq(plan, 1, first_call)]
             ELSE IF bad # 0
             THEN [Report(op, n, ReadError(cells, plan[bad])) EXCEPT
                      !.reads = sized \o SubSeq(plan, 1, bad - 1)]
             ELSE [Report(op, n, "ok") EXCEPT
                      !.reads = sized \o plan,
                      !.rows = [i \in 1..n |->
                                  Row(op, cells, n_e, s_age, ps,
                                      DrawIndex(i - 1, interval))]]

Query ==
    /\ frame.pc = "idle"
    /\ \E op \in Queries :
          /\ last' = query(op, mcmc, n_euler_poles, poles)
          /\ mcmc' = mcmc_after_query(op, mcmc)
    /\ UNCHANGED <<n_euler_poles, start_age, frame, poles, model_vars, model_args,
                   disk>>

Reconstruct ==
    /\ frame.pc = "idle"
    /\ \E op \in Reconstructions, n \in 0..(MaxSample + 1) :
          last' = reconstruct(op, mcmc, n_euler_poles, start_age, poles, n)
    /\ UNCHANGED <<n_euler_poles, start_age, frame, poles, model_vars, model_args,
                   mcmc, disk>>

\* the store left by an earlier run of the same program on the same poles
EarlierStore(ps, n) ==
    LET m == create_model(ps, n, 0, 3, NoModel, <<>>)
    IN  IF m.outcome # "ok" THEN NoFile
        ELSE [exists |-> TRUE,
              cells |-> Sampled(ps, m.model_vars.nodes, MaxSample, BurnIn(MaxSample), 1)]

\* APWPath(name, paleomagnetic_pole_list, n_euler_poles)
Init ==
    /\ n_euler_poles \in {1, MaxEuler}
    /\ poles \in PoleLists
    /\ start_age = MaxOf(AgeList(poles))
    /\ frame = IdleFrame
    /\ model_vars = NoModel
    /\ model_args = <<>>
    /\ mcmc = NoMcmc
    /\ disk \in {NoFile, EarlierStore(poles, n_euler_poles)}
    /\ last = Report("init", <<>>, "ok")

Next == CreateModel \/ SampleMcmc \/ LoadMcmc \/ Query \/ Reconstruct

Spec == Init /\ [][Next]_vars

\* ------------------------------------------------------------------ claims
Count(s, v) == Cardinality({k \in DOMAIN s : s[k] = v})

IsPermutation(s, t) ==
    /\ Len(s) = Len(t)
    /\ \A v \in Range(s) \cup Range(t) : Count(s, v) = Count(t, v)

NonIncreasing(s) == \A k \in 1..(Len(s) - 1) : s[k] >= s[k + 1]

\* the changepoint arguments of the call in progress, as given
GivenChangepoints(f) == SubSeq(f.args, 2 * n_euler_poles + 1, Len(f.args))

LastRotation(f) == f.pole.rotated[Len(f.pole.rotated)]

\* C1: a call of pole_position is refused (it raises, and no rotation has
\* been made on its behalf) exactly when the number of arguments after start
\* and age differs from 3 * n_euler_poles - 1; every other call is accepted.
C1_ArityCheck ==
    frame.pc # "idle" =>
        /\ (frame.pc = "raised") <=> (Len(frame.args) # 3 * n_euler_poles - 1)
        /\ frame.pc = "raised" =>
               /\ frame.pole.rotated = <<>>
               /\ frame.euler_poles = <<>>
               /\ frame.i = 0

C1_Witness ==
    /\ frame.pc = "raised"
    /\ Len(frame.args) = 3 * n_euler_poles
    /\ n_euler_poles >= 2

\* an iteration of the walk has just been made, on the interval governed by
\* frame.euler_poles[frame.i + 1] and ending at frame.changepoints[frame.i + 1]
IterationMade ==
    /\ frame.pc = "loop"
    /\ frame.i < ZipLen(frame)
    /\ frame'.i = frame.i + 1

RotatesThroughInterval ==
    LET e == frame.euler_poles[frame.i + 1]
        c == frame.changepoints[frame.i + 1]
    IN  /\ frame'.pc = "loop"
        /\ frame'.time = c
        /\ Len(frame'.pole.rotated) = Len(frame.pole.rotated) + 1
        /\ LastRotation(frame').about = e
        /\ LastRotation(frame').angle = e.rate * (frame.time - c)

RotatesToTargetAndStops ==
    LET e == frame.euler_poles[frame.i + 1]
    IN  /\ frame'.pc = "returned"
        /\ frame'.broke
        /\ Len(frame'.pole.rotated) = Len(frame.pole.rotated) + 1
        /\ LastRotation(frame').about = e
        /\ LastRotation(frame').angle = e.rate * (frame.time - frame.age)

\* C2, as claimed: in each iteration, if the target age is older than the
\* changepoint c (age > c) the pole is rotated by rate * (time - c), time
\* becomes c and the walk continues; otherwise it is rotated by
\* rate * (time - age) and the walk stops.
C2_AsClaimed ==
    [][IterationMade =>
          IF frame.age > frame.changepoints[frame.i + 1]
          THEN RotatesThroughInterval
          ELSE RotatesToTargetAndStops]_vars

\* C2, amended: in each iteration, if the target age is younger than the
\* changepoint c (age < c) the pole is rotated about e by rate * (time - c),
\* time becomes c and the walk continues with the next interval; otherwise
\* (age >= c) it is rotated about e by rate * (time - age) and the walk stops.
C2_Walk ==
    [][IterationMade =>
          IF frame.age < frame.changepoints[frame.i + 1]
          THEN RotatesThroughInterval
          ELSE RotatesToTargetAndStops]_vars

C2_Witness ==
    /\ frame.pc = "returned"
    /\ frame.broke
    /\ Len(frame.pole.rotated) = 2
    /\ frame.age = frame.changepoints[2]
    /\ frame.age > 0
    /\ frame.changepoints[1] < start_age

\* C3: in every accepted call the interval boundaries used by the walk are
\* the given changepoints plus the present-day age 0, in non-increasing
\* order, n_euler_poles of them; so the order of the arguments is immaterial.
C3_Boundaries ==
    frame.pc \in {"loop", "returned"} =>
        /\ Len(frame.changepoints) = n_euler_poles
        /\ NonIncreasing(frame.changepoints)
        /\ IsPermutation(frame.changepoints, Append(GivenChangepoints(frame), 0))

C3_Witness ==
    /\ frame.pc = "loop"
    /\ n_euler_poles = 3
    /\ GivenChangepoints(frame) = <<1, 2>>
    /\ frame.changepoints = <<2, 1, 0>>

\* the object holds no sampler: neither sample_mcmc nor load_mcmc got as far
\* as setting self.mcmc
NoSampler == mcmc.is_none

\* a trace is attached: self.mcmc.db holds the traces of a store
TraceAttached == ~mcmc.is_none /\ DOMAIN mcmc.db.cells # {}

\* the number of draws of the attached trace
Draws == Len(mcmc.db.cells[Name("rate", 0)])

\* the attached trace holds every variable the reconstruction op reads
CompleteFor(op) ==
    \A k \in DOMAIN RowNames(op, n_euler_poles, poles) :
        RowNames(op, n_euler_poles, poles)[k] \in DOMAIN mcmc.db.cells

\* the reads of single draws, trace(name)[index], among the reads reported
IsDrawRead(r) == r.index >= 0

DrawReads == SelectSeq(last.reads, IsDrawRead)

Stride == IF Draws \div last.input >= 1 THEN Draws \div last.input ELSE 1

\* C4: on a trace of T draws holding the model's variables, a reconstruction
\* with 1 <= n <= T returns n rows; after T has been taken (twice) from the
\* length of rate_0, its reads of draws fall into n equal blocks, block
\* i (from 0) reading draw index i * s only, s = max(1, floor(T / n)); row i
\* holds the values of draw i * s.
C4_Thinning ==
    (/\ last.op \in Reconstructions
     /\ TraceAttached
     /\ CompleteFor(last.op)
     /\ 1 <= last.input
     /\ last.input <= Draws) =>
        LET n == last.input
            per_row == Len(RowNames(last.op, n_euler_poles, poles))
        IN  /\ last.outcome = "ok"
            /\ Len(last.rows) = n
            /\ last.reads = <<LengthRead, LengthRead>> \o DrawReads
            /\ Len(DrawReads) = n * per_row
            /\ \A k \in DOMAIN DrawReads :
                  DrawReads[k].index = ((k - 1) \div per_row) * Stride
            /\ \A i \in 1..n :
                  /\ last.rows[i].index = (i - 1) * Stride
                  /\ \A k \in DOMAIN last.rows[i].args :
                        last.rows[i].args[k] =
                            mcmc.db.cells[last.rows[i].sources[k + 2]][(i - 1) * Stride + 1]
                  /\ last.op = "compute_synthetic_poles" =>
                        \A j \in DOMAIN poles :
                            last.rows[i].ages[j] =
                                mcmc.db.cells[Name("a", j - 1)][(i - 1) * Stride + 1]

C4_Witness ==
    /\ last.op = "compute_synthetic_paths"
    /\ last.outcome = "ok"
    /\ last.input = 2
    /\ Draws = 4
    /\ last.rows[2].index = 2

\* C5, as claimed: a query or reconstruction made while the object holds no
\* sampler fails with the "No database loaded" error and returns no data.
C5_AsClaimed ==
    (last.op \in Queries \cup Reconstructions /\ NoSampler) =>
        /\ last.outcome = "NoDatabaseLoaded"
        /\ last.result = <<>>
        /\ last.rows = <<>>

\* C6, as claimed: a sampler or trace is attached only if create_model has
\* completed; sample_mcmc and load_mcmc on an unbuilt model fail and leave
\* the object without a sampler or trace.
C6_AsClaimed ==
    /\ ~NoSampler => ~model_vars.is_none
    /\ (last.op \in {"sample_mcmc", "load_mcmc"} /\ model_vars.is_none) =>
          last.outcome # "ok" /\ NoSampler

\* C7: a reconstruction with n outside [1, T] fails on its assertion: T has
\* been taken from the length of rate_0 and nothing else was read, so no draw
\* is read, the kinematic function is not called, nothing is returned.
C7_RangeCheck ==
    (/\ last.op \in Reconstructions
     /\ TraceAttached
     /\ (last.input < 1 \/ last.input > Draws)) =>
        /\ last.outcome = "AssertionError"
        /\ last.reads = <<LengthRead>>
        /\ DrawReads = <<>>
        /\ last.rows = <<>>

C7_Witness ==
    /\ last.op = "compute_synthetic_poles"
    /\ TraceAttached
    /\ Draws = MaxSample
    /\ last.input = Draws + 1
    /\ last.outcome = "AssertionError"

\* C8, as claimed: sample_mcmc(n) on a built model goes from the MAP step to
\* sampling n draws (int(n / 5) discarded), closes the store and reloads it,
\* and ends SAMPLED with the trace attached, whether MAP succeeds or fails.
C8_AsClaimed ==
    (last.op = "sample_mcmc" /\ ~model_vars.is_none) =>
        /\ last.outcome = "ok"
        /\ last.result = <<"MCMC", "find_MAP", "sample", "close", "load_mcmc">>
        /\ TraceAttached
        /\ Draws = last.input[1] - (last.input[1] \div 5)
        /\ disk.exists
        /\ disk.cells = mcmc.db.cells

\* C9, as claimed: create_model fails on any observation list holding a pole
\* whose age_type is neither 'gaussian' nor 'uniform', wherever it stands, and
\* the object stays unbuilt.
C9_AsClaimed ==
    (\E k \in DOMAIN poles : poles[k].age_type \notin {"gaussian", "uniform"}) =>
        /\ model_vars.is_none
        /\ last.op = "create_model" => last.outcome # "ok"

\* C10: in every row of a reconstruction the argument list is start, the age,
\* euler_0.., rate_0.., changepoint_0.. : create_model's order, 3n - 1
\* arguments after start and the age; the kinematic function never refuses it.
C10_ArgumentOrder ==
    /\ last.op \in Reconstructions => last.outcome # "Exception"
    /\ (last.op \in Reconstructions /\ last.outcome = "ok") =>
          \A i \in DOMAIN last.rows :
             LET r == last.rows[i]
                 n == n_euler_poles
             IN  /\ Len(r.args) = 3 * n - 1
                 /\ Len(r.sources) = 3 * n + 1
                 /\ r.sources[1] = <<"start", 0>>
                 /\ r.sources[2] = AgePlaceholder
                 /\ \A k \in 1..n : r.sources[2 + k] = <<"euler", k - 1>>
                 /\ \A k \in 1..n : r.sources[2 + n + k] = <<"rate", k - 1>>
                 /\ \A k \in 1..(n - 1) : r.sources[2 + 2 * n + k] = <<"changepoint", k - 1>>
                 /\ ~model_vars.is_none =>
                       SubSeq(r.sources, 3, Len(r.sources)) = model_args
                 /\ \A j \in DOMAIN r.out : r.out[j].pc = "returned"

C10_Witness ==
    /\ last.op = "compute_synthetic_poles"
    /\ last.outcome = "ok"
    /\ n_euler_poles = MaxEuler
    /\ ~model_vars.is_none
    /\ Len(last.rows) >= 2
    /\ Len(poles) >= 2

\* C11: once a trace is attached, a query or a reconstruction leaves it as it
\* was: self.mcmc and the store hold the same values at every draw index after
\* the call as before it, so the same call made again reports the same.
C11_TraceReadOnly ==
    [][(/\ TraceAttached
        /\ last'.op \in Queries \cup Reconstructions
        /\ last' # last) =>
           /\ mcmc' = mcmc
           /\ disk' = disk
           /\ last'.op \in Queries =>
                 last' = query(last'.op, mcmc', n_euler_poles, poles)]_vars

C11_Witness ==
    /\ TraceAttached
    /\ last.op = "euler_directions"
    /\ Len(last.reads) = 1
    /\ mcmc.db.cells = disk.cells

\* the number of interval boundaries strictly older than the target age
BoundariesOlderThan(f) ==
    Cardinality({k \in DOMAIN f.changepoints : f.changepoints[k] > f.age})

\* C12: an accepted call makes exactly min(n_euler_poles, k + 1) rotations, k
\* the number of boundaries (changepoints plus 0) strictly greater than the
\* target age; rotation j is about the j-th Euler pole of the argument list,
\* with the j-th rate, whatever the order of the changepoint arguments.
C12_RotationCount ==
    frame.pc = "returned" =>
        LET n == n_euler_poles
            made == frame.pole.rotated
        IN  /\ Len(made) = Min(n, BoundariesOlderThan(frame) + 1)
            /\ \A j \in DOMAIN made :
                  /\ made[j].about.longitude = frame.args[j][1]
                  /\ made[j].about.latitude = frame.args[j][2]
                  /\ made[j].about.rate = frame.args[n + j]
                  /\ made[j].angle = frame.args[n + j] * frame.spans[j]
            /\ n = 1 => Len(made) = 1

C12_Witness ==
    /\ frame.pc = "returned"
    /\ n_euler_poles = 3
    /\ GivenChangepoints(frame) = <<1, 2>>
    /\ frame.age = 1
    /\ Len(frame.pole.rotated) = 2

RECURSIVE Sum(_)
Sum(s) == IF s = <<>> THEN 0 ELSE Head(s) + Sum(Tail(s))

\* C13: an accepted call with target age >= 0 ends through the rotation that
\* reaches the target age, never by running out of intervals, and the time
\* spans of its rotations add up to start_age - age, whatever the changepoints.
C13_SpansAddUp ==
    (frame.pc = "returned" /\ frame.age >= 0) =>
        /\ frame.broke
        /\ Len(frame.spans) = Len(frame.pole.rotated)
        /\ Sum(frame.spans) = start_age - frame.age
        /\ frame.age = start_age => Sum(frame.spans) = 0

C13_Witness ==
    /\ frame.pc = "returned"
    /\ frame.age >= 0
    /\ Len(frame.spans) = 2
    /\ \E k \in DOMAIN frame.changepoints : frame.changepoints[k] < 0
    /\ \E k \in DOMAIN frame.spans : frame.spans[k] < 0

\* C14: once the range check on n has passed (1 <= n <= T), every draw index
\* a reconstruction reads, of whatever trace, is within 0..T-1; the assertion
\* interval > 0 does not fail and no read is out of range.
C14_IndicesInRange ==
    (/\ last.op \in Reconstructions
     /\ TraceAttached
     /\ 1 <= last.input
     /\ last.input <= Draws) =>
        /\ last.outcome \notin {"IndexError", "AssertionError"}
        /\ Interval(Draws, last.input) > 0
        /\ \A k \in DOMAIN DrawReads :
              /\ 0 <= DrawReads[k].index
              /\ DrawReads[k].index <= Draws - 1
              /\ DrawReads[k].index < Len(mcmc.db.cells[DrawReads[k].name])

C14_Witness ==
    /\ last.op = "compute_synthetic_poles"
    /\ last.outcome = "ok"
    /\ Draws = MaxSample
    /\ last.input = Draws
    /\ last.reads[Len(last.reads)].index = Draws - 1
    /\ last.reads[Len(last.reads)].name[1] = "a"

====
